---- MODULE Spec2Model ----
(***************************************************************************)
(* A model of entity/models.py of django-entity: the Entity table, the     *)
(* EntityRelationship edge table, the two managers (objects, all_objects)  *)
(* and the EntityQuerySet filters built on them.                           *)
(*                                                                         *)
(* The store is the pair (entities, relationships).  A queryset is lazy:   *)
(* it is kept as the manager it started from and the filter calls chained  *)
(* on it, and it is evaluated against the store as it is when it is read.  *)
(***************************************************************************)
EXTENDS Integers, Sequences, FiniteSets, Bags, TLC

\* ------------------------------------------------------------------ bounds
\* Primary keys handed out to Entity rows over a run.
MaxEntities == 3
\* EntityRelationship rows held at one time.
MaxEdgeRows == 2
\* Longest argument list passed to a filter.
MaxArgs == 2
\* Filter calls chained on one queryset.
MaxChain == 1

Ids == 1..MaxEntities

\* EntityKind rows (the kinds are reference data here: they are never deleted
\* while an Entity points at them, on_delete=PROTECT).
Kinds == {"K1", "K2"}

\* The domain objects an Entity can wrap: (content type, id of the object).
Objs == {<<"user", 1>>, <<"team", 1>>}

Managers == {"objects", "all_objects"}

VARIABLES
    entities,       \* Entity table: pk -> [entity_type, entity_id, entity_kind, is_active]
    next_pk,        \* next primary key of the Entity table
    relationships,  \* EntityRelationship table: a bag of <<sub_entity, super_entity>> rows
    qs,             \* the queryset being built: [mgr, steps]
    last,           \* outcome of the latest get_for_obj / delete_for_obj call
    fetched         \* an Entity object materialized from a queryset, with its prefetch cache

vars == <<entities, next_pk, relationships, qs, last, fetched>>

\* ------------------------------------------------------------------ helpers
Range(s) == {s[i] : i \in 1..Len(s)}

SeqsUpTo(D, n) == UNION {[1..k -> D] : k \in 0..n}

\* The rows of the Entity table (what EntityQuerySet(self.model) ranges over).
AllRows == DOMAIN entities

\* Number of relationship rows with the given sub entity whose super entity is in supers
\* (SQL: COUNT(super_entity_id) of the group of sub, after the WHERE on super).
RowCount(sub, supers) ==
    LET rows == {r \in DOMAIN relationships : r[1] = sub /\ r[2] \in supers}
    IN  BagCardinality([r \in rows |-> relationships[r]])

\* The sub entities of the relationship rows whose super entity is in supers.
SubsOf(supers) == {r[1] : r \in {r \in DOMAIN relationships : r[2] \in supers}}

\* The join super_entity__entity_kind: the entities whose kind is in kinds.
OfKind(kinds) == {e \in AllRows : entities[e].entity_kind \in kinds}

\* ------------------------------------------------------------------ EntityQuerySet
\* Every filter takes the rows S the queryset holds so far and returns the rows kept.

active(S) == {e \in S : entities[e].is_active}

inactive(S) == {e \in S : ~entities[e].is_active}

\* Fault seeded for C3: is_any_kind without its test for an empty argument list.
is_any_kind_unguarded(S, entity_kinds) ==
    {e \in S : entities[e].entity_kind \in Range(entity_kinds)}

is_any_kind(S, entity_kinds) ==
    IF entity_kinds # <<>>
    THEN {e \in S : entities[e].entity_kind \in Range(entity_kinds)}
    ELSE S

is_not_any_kind(S, entity_kinds) ==
    IF entity_kinds # <<>>
    THEN S \ {e \in S : entities[e].entity_kind \in Range(entity_kinds)}
    ELSE S

\* values('sub_entity').annotate(Count('super_entity')).filter(super_entity__count=n):
\* the groups (sub entities with at least one row that passed the WHERE) whose number
\* of rows is n.  Count('super_entity') is COUNT(super_entity_id): it counts rows.
GroupsWithCount(supers, n) == {sub \in SubsOf(supers) : RowCount(sub, supers) = n}

is_sub_to_all(S, super_entities) ==
    IF super_entities # <<>>
    THEN LET has_subset ==
                 IF Len(super_entities) = 1
                 THEN SubsOf({super_entities[1]})
                 ELSE GroupsWithCount(Range(super_entities),
                                      Cardinality(Range(super_entities)))
         IN  {e \in S : e \in has_subset}
    ELSE S

is_sub_to_any(S, super_entities) ==
    IF super_entities # <<>>
    THEN {e \in S : e \in SubsOf(Range(super_entities))}
    ELSE S

is_sub_to_all_kinds(S, super_entity_kinds) ==
    IF super_entity_kinds # <<>>
    THEN LET has_subset ==
                 IF Len(super_entity_kinds) = 1
                 THEN SubsOf(OfKind({super_entity_kinds[1]}))
                 ELSE GroupsWithCount(OfKind(Range(super_entity_kinds)),
                                      Cardinality(Range(super_entity_kinds)))
         IN  {e \in S : e \in has_subset}
    ELSE S

is_sub_to_any_kind(S, super_entity_kinds) ==
    IF super_entity_kinds # <<>>
    THEN LET entity_pks ==
                 IF Len(super_entity_kinds) = 1
                 THEN SubsOf(OfKind({super_entity_kinds[1]}))
                 ELSE SubsOf(OfKind(Range(super_entity_kinds)))
         IN  {e \in S : e \in entity_pks}
    ELSE S

\* ------------------------------------------------------------------ managers
AllEntityManager_get_queryset == AllRows

\* Fault seeded for C4: the default manager without its .active().
get_queryset_unscoped == AllRows

ActiveEntityManager_get_queryset == active(AllRows)

get_queryset(mgr) ==
    IF mgr = "objects" THEN ActiveEntityManager_get_queryset
                       ELSE AllEntityManager_get_queryset

\* ------------------------------------------------------------------ lazy querysets
KindOps == {"is_any_kind", "is_not_any_kind", "is_sub_to_all_kinds", "is_sub_to_any_kind"}
EntityOps == {"is_sub_to_all", "is_sub_to_any"}
NoArgOps == {"active", "inactive"}

\* The filter calls a caller can chain.
Steps ==
    [op : NoArgOps, args : {<<>>}]
    \cup [op : KindOps, args : SeqsUpTo(Kinds, MaxArgs)]
    \cup [op : EntityOps, args : SeqsUpTo(Ids, MaxArgs)]

ApplyStep(S, step) ==
    CASE step.op = "active" -> active(S)
      [] step.op = "inactive" -> inactive(S)
      [] step.op = "is_any_kind" -> is_any_kind(S, step.args)
      [] step.op = "is_not_any_kind" -> is_not_any_kind(S, step.args)
      [] step.op = "is_sub_to_all" -> is_sub_to_all(S, step.args)
      [] step.op = "is_sub_to_any" -> is_sub_to_any(S, step.args)
      [] step.op = "is_sub_to_all_kinds" -> is_sub_to_all_kinds(S, step.args)
      [] step.op = "is_sub_to_any_kind" -> is_sub_to_any_kind(S, step.args)

RECURSIVE ApplySteps(_, _, _)
\* The rows left after the first n filter calls of steps, starting from S.
ApplySteps(S, steps, n) ==
    IF n = 0 THEN S ELSE ApplyStep(ApplySteps(S, steps, n - 1), steps[n])

\* The rows a queryset yields when it is read now, and after its first n calls.
EvalUpTo(q, n) == ApplySteps(get_queryset(q.mgr), q.steps, n)

Eval(q) == EvalUpTo(q, Len(q.steps))

NoQuerySet == [mgr |-> "none", steps |-> <<>>]

NoCall == [op |-> "none", mgr |-> "none", obj |-> <<"none", 0>>, rows |-> {}, outcome |-> "none"]

NotFetched ==
    [pk |-> 0, cache_super |-> FALSE, cache_sub |-> FALSE,
     super_cache |-> EmptyBag, sub_cache |-> EmptyBag]

\* ------------------------------------------------------------------ the store
Init ==
    /\ entities = <<>>
    /\ next_pk = 1
    /\ relationships = EmptyBag
    /\ qs = NoQuerySet
    /\ last = NoCall
    /\ fetched = NotFetched

\* The rows wrapping a domain object: entity_type = its content type, entity_id = its id.
ForObj(S, obj) ==
    {e \in S : entities[e].entity_type = obj[1] /\ entities[e].entity_id = obj[2]}

\* Entity.objects.create(entity=obj, entity_kind=kind): a new row, active by default;
\* unique_together refuses a second row with the same (entity_id, entity_type, entity_kind).
CreateEntity(obj, kind) ==
    /\ next_pk <= MaxEntities
    /\ \A e \in ForObj(AllRows, obj) : entities[e].entity_kind # kind
    /\ entities' = (next_pk :> [entity_type |-> obj[1], entity_id |-> obj[2],
                                 entity_kind |-> kind, is_active |-> TRUE]) @@ entities
    /\ next_pk' = next_pk + 1
    /\ last' = NoCall
    /\ UNCHANGED <<relationships, qs, fetched>>

\* The standard delete path of an activatable row: it is kept and marked inactive.
Deactivate(e) ==
    /\ e \in AllRows
    /\ entities[e].is_active
    /\ entities' = [entities EXCEPT ![e].is_active = FALSE]
    /\ last' = NoCall
    /\ UNCHANGED <<next_pk, relationships, qs, fetched>>

Activate(e) ==
    /\ e \in AllRows
    /\ ~entities[e].is_active
    /\ entities' = [entities EXCEPT ![e].is_active = TRUE]
    /\ last' = NoCall
    /\ UNCHANGED <<next_pk, relationships, qs, fetched>>

\* Fault seeded for C10: only the sub_entity foreign key cascades.
CascadeSubEntityOnly(deleted) ==
    LET kept == {r \in DOMAIN relationships : r[1] \notin deleted}
    IN  [r \in kept |-> relationships[r]]

\* The relationship rows left when the entities in deleted are removed: both foreign
\* keys of EntityRelationship cascade.
CascadeRelationships(deleted) ==
    LET kept == {r \in DOMAIN relationships : r[1] \notin deleted /\ r[2] \notin deleted}
    IN  [r \in kept |-> relationships[r]]

\* Physical deletion of the rows in deleted (delete(force=True)).
ForceDelete(deleted) ==
    /\ entities' = [e \in AllRows \ deleted |-> entities[e]]
    /\ relationships' = CascadeRelationships(deleted)

DeleteEntity(e) ==
    /\ e \in AllRows
    /\ ForceDelete({e})
    /\ last' = NoCall
    /\ UNCHANGED <<next_pk, qs, fetched>>

\* EntityRelationship.objects.create(sub_entity=sub, super_entity=super): no uniqueness,
\* both ends must be rows of the Entity table.
CreateRelationship(sub, super) ==
    /\ sub \in AllRows
    /\ super \in AllRows
    /\ BagCardinality(relationships) < MaxEdgeRows
    /\ relationships' = relationships (+) SetToBag({<<sub, super>>})
    /\ last' = NoCall
    /\ UNCHANGED <<entities, next_pk, qs, fetched>>

DeleteRelationship(r) ==
    /\ r \in DOMAIN relationships
    /\ relationships' = relationships (-) SetToBag({r})
    /\ last' = NoCall
    /\ UNCHANGED <<entities, next_pk, qs, fetched>>

StoreNext ==
    \/ \E obj \in Objs, kind \in Kinds : CreateEntity(obj, kind)
    \/ \E e \in Ids : Deactivate(e)
    \/ \E e \in Ids : Activate(e)
    \/ \E e \in Ids : DeleteEntity(e)
    \/ \E sub \in Ids, super \in Ids : CreateRelationship(sub, super)
    \/ \E r \in Ids \X Ids : DeleteRelationship(r)

\* ------------------------------------------------------------------ building querysets
\* Entity.objects / Entity.all_objects: a fresh queryset of the manager.
Manager(mgr) ==
    /\ qs' = [mgr |-> mgr, steps |-> <<>>]
    /\ UNCHANGED <<entities, next_pk, relationships, last, fetched>>

\* One more filter call on the queryset (the manager's own filter methods are
\* get_queryset() followed by the same call).
Chain(step) ==
    /\ qs.mgr # "none"
    /\ Len(qs.steps) < MaxChain
    /\ qs' = [qs EXCEPT !.steps = Append(@, step)]
    /\ UNCHANGED <<entities, next_pk, relationships, last, fetched>>

Next ==
    \/ StoreNext
    \/ \E mgr \in Managers : Manager(mgr)
    \/ \E step \in Steps : Chain(step)

Spec == Init /\ [][Next]_vars

\* ------------------------------------------------------------------ lookups by domain object
\* self.get(entity_type=..., entity_id=...): the one row of the manager's queryset that
\* matches, DoesNotExist when none does, MultipleObjectsReturned when several do.
get_for_obj(mgr, obj) ==
    LET rows == ForObj(get_queryset(mgr), obj)
    IN  [op |-> "get_for_obj", mgr |-> mgr, obj |-> obj, rows |-> rows,
         outcome |-> CASE Cardinality(rows) = 1 -> "ok"
                       [] Cardinality(rows) = 0 -> "DoesNotExist"
                       [] OTHER -> "MultipleObjectsReturned"]

GetForObj(mgr, obj) ==
    /\ last' = get_for_obj(mgr, obj)
    /\ UNCHANGED <<entities, next_pk, relationships, qs, fetched>>

\* Fault seeded for C5: delete_for_obj reaching past its manager's queryset.
delete_for_obj_unscoped(mgr, obj) == ForObj(AllRows, obj)

\* The rows self.filter(entity_type=..., entity_id=...) selects for delete(force=True).
delete_for_obj(mgr, obj) == ForObj(get_queryset(mgr), obj)

DeleteForObj(mgr, obj) ==
    /\ ForceDelete(delete_for_obj(mgr, obj))
    /\ last' = [op |-> "delete_for_obj", mgr |-> mgr, obj |-> obj,
                rows |-> delete_for_obj(mgr, obj), outcome |-> "ok"]
    /\ UNCHANGED <<next_pk, qs, fetched>>

NextObj ==
    \/ StoreNext
    \/ \E mgr \in Managers, obj \in Objs : GetForObj(mgr, obj)
    \/ \E mgr \in Managers, obj \in Objs : DeleteForObj(mgr, obj)

SpecObj == Init /\ [][NextObj]_vars

\* ------------------------------------------------------------------ relationship caches
\* The super entities behind self.super_relationships.all(), one per relationship row,
\* and the sub entities behind self.sub_relationships.all(), read from the store.
SuperRows(pk) ==
    LET rows == {r \in DOMAIN relationships : r[1] = pk}
    IN  [super \in {r[2] : r \in rows} |-> relationships[<<pk, super>>]]

SubRows(pk) ==
    LET rows == {r \in DOMAIN relationships : r[2] = pk}
    IN  [sub \in {r[1] : r \in rows} |-> relationships[<<sub, pk>>]]

\* Fault seeded for C7: a prefetch that keeps one relationship row per neighbour.
Prefetched_distinct(pk, cache_super, cache_sub) ==
    [pk |-> pk, cache_super |-> cache_super, cache_sub |-> cache_sub,
     super_cache |-> IF cache_super THEN SetToBag(DOMAIN SuperRows(pk)) ELSE EmptyBag,
     sub_cache |-> IF cache_sub THEN SetToBag(DOMAIN SubRows(pk)) ELSE EmptyBag]

\* prefetch_related('super_relationships__super_entity', 'sub_relationships__sub_entity'),
\* compressed by the two flags: what the object of row pk carries once it is fetched.
Prefetched(pk, cache_super, cache_sub) ==
    [pk |-> pk, cache_super |-> cache_super, cache_sub |-> cache_sub,
     super_cache |-> IF cache_super THEN SuperRows(pk) ELSE EmptyBag,
     sub_cache |-> IF cache_sub THEN SubRows(pk) ELSE EmptyBag]

\* The rows of a queryset with cache_relationships() applied: prefetching filters nothing.
cache_relationships(S, cache_super, cache_sub) == S

\* Iterating mgr.cache_relationships(cache_super, cache_sub) and keeping the object of
\* row pk (both flags off: the same as a queryset without cache_relationships).  One
\* fetched object is followed at a time.
Fetch(mgr, cache_super, cache_sub, pk) ==
    /\ fetched = NotFetched
    /\ pk \in cache_relationships(get_queryset(mgr), cache_super, cache_sub)
    /\ fetched' = Prefetched(pk, cache_super, cache_sub)
    /\ UNCHANGED <<entities, next_pk, relationships, qs, last>>

\* The object is dropped by the caller.
Forget ==
    /\ fetched # NotFetched
    /\ fetched' = NotFetched
    /\ UNCHANGED <<entities, next_pk, relationships, qs, last>>

\* [r.super_entity for r in self.super_relationships.all()]: from the prefetch cache of
\* the object when it has one, from the store otherwise.
get_super_entities(obj) ==
    IF obj.cache_super THEN obj.super_cache ELSE SuperRows(obj.pk)

get_sub_entities(obj) ==
    IF obj.cache_sub THEN obj.sub_cache ELSE SubRows(obj.pk)

NextCache ==
    \/ StoreNext
    \/ \E mgr \in Managers, cache_super \in BOOLEAN, cache_sub \in BOOLEAN, pk \in Ids :
           Fetch(mgr, cache_super, cache_sub, pk)
    \/ Forget

SpecCache == Init /\ [][NextCache]_vars

\* ------------------------------------------------------------------ properties of the filters
\* The positions of the queryset's chain that hold a call of one of ops.
Calls(ops) == {i \in 1..Len(qs.steps) : qs.steps[i].op \in ops}

\* x has a relationship row to super.
IsSubTo(x, super) == <<x, super>> \in DOMAIN relationships

\* x has a relationship row to a super entity of the given kind.
IsSubToKind(x, kind) ==
    \E r \in DOMAIN relationships :
        r[1] = x /\ r[2] \in AllRows /\ entities[r[2]].entity_kind = kind

\* C1: is_sub_to_all(supers...) on a candidate set S, supers not empty, returns exactly
\* the x in S such that every entity of supers is a super entity of x, however many
\* relationship rows join x to each of them.
C1_SubToAllIsCoverage ==
    \A i \in Calls({"is_sub_to_all"}) :
        qs.steps[i].args # <<>> =>
            EvalUpTo(qs, i) =
                {x \in EvalUpTo(qs, i - 1) :
                    \A super \in Range(qs.steps[i].args) : IsSubTo(x, super)}

\* C2: is_sub_to_all_kinds(kinds...) on a candidate set S, kinds not empty, returns
\* exactly the x in S whose super entities show every requested kind, several super
\* entities of one kind counting once.
C2_SubToAllKindsIsCoverage ==
    \A i \in Calls({"is_sub_to_all_kinds"}) :
        qs.steps[i].args # <<>> =>
            EvalUpTo(qs, i) =
                {x \in EvalUpTo(qs, i - 1) :
                    \A kind \in Range(qs.steps[i].args) : IsSubToKind(x, kind)}

\* C3: called with no argument, each of is_any_kind, is_not_any_kind, is_sub_to_any,
\* is_sub_to_all, is_sub_to_any_kind and is_sub_to_all_kinds returns the candidate set
\* unchanged, from Entity.objects and from Entity.all_objects, whatever the store holds.
C3_EmptyArgumentsAreNoOp ==
    \A i \in Calls(KindOps \cup EntityOps) :
        qs.steps[i].args = <<>> => EvalUpTo(qs, i) = EvalUpTo(qs, i - 1)

\* A queryset whose last call has no argument, read while it has rows and while the
\* same call with an argument would drop some of them.
C3_Witness ==
    /\ qs.mgr \in Managers
    /\ Len(qs.steps) >= 1
    /\ qs.steps[Len(qs.steps)].op \in KindOps \cup EntityOps
    /\ qs.steps[Len(qs.steps)].args = <<>>
    /\ Cardinality(Eval(qs)) >= 2
    /\ relationships = EmptyBag

\* C4: whatever was created, deactivated, reactivated and deleted, a queryset started
\* from Entity.objects yields only active entities after any of its filter calls, and
\* an inactive entity is missing from Entity.objects and present in Entity.all_objects.
C4_DefaultManagerIsActiveOnly ==
    /\ qs.mgr = "objects" =>
           \A i \in 0..Len(qs.steps) : \A e \in EvalUpTo(qs, i) : entities[e].is_active
    /\ \A e \in AllRows :
           ~entities[e].is_active =>
               /\ e \notin get_queryset("objects")
               /\ e \in get_queryset("all_objects")

\* A filtered queryset of Entity.objects that yields rows while the table holds an
\* inactive entity its filter call would let through.
C4_Witness ==
    /\ qs.mgr = "objects"
    /\ Len(qs.steps) >= 1
    /\ Eval(qs) # {}
    /\ \E e \in AllRows :
           /\ ~entities[e].is_active
           /\ e \in ApplySteps(AllRows, qs.steps, Len(qs.steps))

\* C8: the one-argument path of is_sub_to_all and of is_sub_to_all_kinds returns what
\* the group-and-count path returns for the same required set: f(Y) = f(Y, Y).
C8_FastPathIsGeneralPath ==
    \A i \in Calls({"is_sub_to_all", "is_sub_to_all_kinds"}) :
        Len(qs.steps[i].args) = 1 =>
            EvalUpTo(qs, i) =
                ApplyStep(EvalUpTo(qs, i - 1),
                          [op |-> qs.steps[i].op,
                           args |-> qs.steps[i].args \o qs.steps[i].args])

\* C9: from Entity.objects a relationship row counts only while its super entity is
\* active: every entity returned by is_sub_to_any / is_sub_to_all (or their kind forms)
\* has a row to an active super entity among (of a kind among) the arguments.
C9_InactiveSupersDoNotCount ==
    qs.mgr = "objects" =>
        /\ \A i \in Calls(EntityOps) :
               qs.steps[i].args # <<>> =>
                   \A x \in EvalUpTo(qs, i) :
                       \E super \in active(AllRows) \cap Range(qs.steps[i].args) :
                           IsSubTo(x, super)
        /\ \A i \in Calls({"is_sub_to_all_kinds", "is_sub_to_any_kind"}) :
               qs.steps[i].args # <<>> =>
                   \A x \in EvalUpTo(qs, i) :
                       \E r \in DOMAIN relationships :
                           /\ r[1] = x
                           /\ r[2] \in active(AllRows)
                           /\ entities[r[2]].entity_kind \in Range(qs.steps[i].args)

\* ------------------------------------------------------------------ properties of the lookups
\* C5 as stated: after delete_for_obj, called from either manager, no entity wrapping the
\* object is left in the all view, whatever its activation state was.
C5_DeleteForObjRemovesFromBothViews ==
    last.op = "delete_for_obj" => ForObj(AllRows, last.obj) = {}

\* C5, amended: delete_for_obj takes no force flag and always deletes physically, and
\* it deletes the rows wrapping the object that its manager shows: from
\* Entity.all_objects all of them, from Entity.objects the active ones, an inactive one
\* staying in the all view as it was.  Every other row is left as it was.
C5_DeleteForObjDeletesWhatTheManagerShows ==
    [][last'.op = "delete_for_obj" =>
          LET gone == {e \in ForObj(AllRows, last'.obj) :
                          last'.mgr = "all_objects" \/ entities[e].is_active}
          IN  /\ last'.rows = gone
              /\ DOMAIN entities' = AllRows \ gone
              /\ \A e \in AllRows \ gone : entities'[e] = entities[e]]_vars

\* Entity.objects.delete_for_obj has deleted an active entity wrapping the object and
\* left an inactive one wrapping the same object.
C5_Witness ==
    /\ last.op = "delete_for_obj"
    /\ last.mgr = "objects"
    /\ last.rows # {}
    /\ ForObj(AllRows, last.obj) # {}

\* C6: get_for_obj matches at most one entity: it returns the entity wrapping the object
\* or fails with DoesNotExist, and never fails because several rows match.
C6_GetForObjMatchesAtMostOne ==
    last.op = "get_for_obj" =>
        /\ last.outcome \in {"ok", "DoesNotExist"}
        /\ Cardinality(last.rows) <= 1

\* Every relationship row joins two rows of the Entity table.
NoDanglingEdges ==
    \A r \in DOMAIN relationships : r[1] \in AllRows /\ r[2] \in AllRows

\* C10: no relationship row ever refers to an entity that is gone: a physical deletion
\* (delete_for_obj included) takes every row at either end of the entity with it, and a
\* change of is_active leaves the relationship rows as they are.
C10_NoDanglingEdges ==
    /\ []NoDanglingEdges
    /\ [][(DOMAIN entities' = AllRows /\ entities' # entities) =>
              relationships' = relationships]_vars

\* delete_for_obj has deleted entities and relationship rows are left.
C10_Witness ==
    /\ last.op = "delete_for_obj"
    /\ last.rows # {}
    /\ relationships # EmptyBag
    /\ \E e \in AllRows : ~entities[e].is_active /\ e \in {r[1] : r \in DOMAIN relationships}

\* ------------------------------------------------------------------ properties of the caches
\* What the fetched object answers is what the store answers now.
CacheIsCurrent ==
    /\ get_super_entities(fetched) = SuperRows(fetched.pk)
    /\ get_sub_entities(fetched) = SubRows(fetched.pk)

\* C7 as stated: at every point of a run, get_super_entities() and get_sub_entities() of
\* an entity fetched with cache_relationships() return what an uncached read returns.
C7_CacheIsAlwaysCurrent == fetched.pk # 0 => CacheIsCurrent

\* C7, amended: cache_relationships changes no membership, and an entity fetched with it
\* answers get_super_entities() and get_sub_entities() with the relationship rows the
\* store held when it was fetched: the answer of an uncached read at that moment, and
\* for as long as no row at either end of the entity is created or deleted.
C7_CacheIsCurrentWhenFetched ==
    /\ [](\A mgr \in Managers, cache_super \in BOOLEAN, cache_sub \in BOOLEAN :
              cache_relationships(get_queryset(mgr), cache_super, cache_sub)
                  = get_queryset(mgr))
    /\ [][/\ fetched' # fetched => CacheIsCurrent'
          /\ (/\ CacheIsCurrent
              /\ fetched' = fetched
              /\ SuperRows(fetched.pk)' = SuperRows(fetched.pk)
              /\ SubRows(fetched.pk)' = SubRows(fetched.pk)) => CacheIsCurrent']_vars

\* An entity fetched with both caches, with a duplicated row above it and a row below it.
C7_Witness ==
    /\ fetched.pk # 0
    /\ fetched.cache_super
    /\ fetched.cache_sub
    /\ \E super \in DOMAIN fetched.super_cache : fetched.super_cache[super] >= 2
    /\ fetched.sub_cache # EmptyBag
    /\ CacheIsCurrent

====
